---- MODULE Spec2Model ----
(***************************************************************************)
(* A model of the card extraction and matching pipelines of CatalogScanner *)
(* (music.py and recipes.py): frame gate, grid segmenter, duplicate        *)
(* suppressor, reference matcher, name deduplication and translation.      *)
(*                                                                         *)
(* Images are bounded: a pixel is a <<b, g, r>> triple, a tile is a        *)
(* sequence of TilePixels pixels, a matcher card is a column of CardRows   *)
(* pixels.  All pixel arithmetic (absolute difference, mean, Euclidean     *)
(* norm) is computed on these values as the code computes it; a mean       *)
(* m = s / n is compared as s against n * bound to stay in the integers.   *)
(***************************************************************************)
EXTENDS Integers, Sequences, FiniteSets, TLC

(* ------------------------------ bounds --------------------------------- *)
\* frames the video source may supply before it ends
MaxFrames == 5
\* rows the segmenter may deliver during one scan
MaxDeliveries == 5
\* pixels of one tile image
TilePixels == 1
\* pixel rows of a card image handed to the matcher
CardRows == 3
\* entries of one candidate list of the matcher
MaxCands == 3
\* entries of the reference database (names.json)
MaxDb == 3
\* retained tiles handed to match_songs / match_recipes
MaxTiles == 3
\* bits of a perceptual hash
HashBits == 2
\* names handed to translate_names
MaxNames == 3

(* ------------------------- program constants --------------------------- *)
FrameHeight == 720
FrameWidth == 1280
MusicRegionHeight == 575
MusicRowPeriod == 287
MusicTileSize == 260
MusicDetectTolerance == 10
MusicBlankTolerance == 5
MusicDupThreshold == 15
RecipesDupThreshold == 15
RecipesSubsample == 4
RecipesMargin == 3

BG_COLOR == <<238, 217, 101>>

(* ----------------------------- pixel helpers --------------------------- *)
Abs(x) == IF x < 0 THEN -x ELSE x

Max(a, b) == IF a > b THEN a ELSE b

Min(a, b) == IF a < b THEN a ELSE b

\* cv2.absdiff(a, b) of two pixels, summed over the three channels
PixelAbsDiff(p, q) == Abs(p[1] - q[1]) + Abs(p[2] - q[2]) + Abs(p[3] - q[3])

\* cv2.absdiff(a, b).sum() for two images (pixel sequences) of equal size
RECURSIVE AbsDiffSum(_, _)
AbsDiffSum(a, b) ==
    IF a = <<>> THEN 0
    ELSE PixelAbsDiff(Head(a), Head(b)) + AbsDiffSum(Tail(a), Tail(b))

\* number of array elements of an image: pixels times channels
NumElems(a) == 3 * Len(a)

\* the square of numpy.linalg.norm(color - ref)
NormSq(color, ref) ==
    (color[1] - ref[1]) * (color[1] - ref[1])
    + (color[2] - ref[2]) * (color[2] - ref[2])
    + (color[3] - ref[3]) * (color[3] - ref[3])

\* cv2.hconcat(tiles): the tiles side by side; None (here <<>>) for no tiles
RECURSIVE HConcat(_)
HConcat(tiles) ==
    IF tiles = <<>> THEN <<>> ELSE Head(tiles) \o HConcat(Tail(tiles))

\* Python's seq[start:stop] for a slice object; open means stop is None
PySlice(s, sl) ==
    LET n == Len(s)
        norm(i) == IF i < 0 THEN Max(n + i, 0) ELSE Min(i, n)
        lo == norm(sl.start)
        hi == IF sl.open THEN n ELSE norm(sl.stop)
    IN  SubSeq(s, lo + 1, hi)

RECURSIVE ChannelSum(_, _)
ChannelSum(img, c) ==
    IF img = <<>> THEN 0 ELSE Head(img)[c] + ChannelSum(Tail(img), c)

\* region.mean(axis=(0, 1)): the mean color of an image, truncated
MeanColor(img) ==
    <<ChannelSum(img, 1) \div Len(img), ChannelSum(img, 2) \div Len(img),
      ChannelSum(img, 3) \div Len(img)>>

\* a tile filled with one color
Flat(color) == [i \in 1..TilePixels |-> color]

Gray(v) == <<v, v, v>>


(* ======================= music.py: frame gate ========================== *)
\* music.detect: the mean color of frame[:20, 1220:1250] against BG_COLOR
detect(frame) ==
    NormSq(frame.corner, BG_COLOR) < MusicDetectTolerance * MusicDetectTolerance

\* a faulty resolution check that compares the height alone
ResolutionHeightOnly(frame) == frame.shape[1] = FrameHeight

\* the assert of _read_frames (music.py and recipes.py)
ResolutionOk(frame) == frame.shape = <<FrameHeight, FrameWidth>>

(* ====================== music.py: grid segmenter ======================= *)
\* the first pass of _parse_frame: the phases of all sensible y positions
RECURSIVE music_y_centers(_)
music_y_centers(separators) ==
    IF Len(separators) < 2 THEN <<>>
    ELSE LET y1 == separators[1]
             y2 == separators[2]
             gap == IF 259 < y2 - y1 /\ y2 - y1 < 266
                    THEN <<y1 % MusicRowPeriod, (y2 + 25) % MusicRowPeriod>>
                    ELSE <<>>
             wrap == IF 20 < y2 - y1 /\ y2 - y1 < 27
                     THEN <<y2 % MusicRowPeriod, (y1 + 25) % MusicRowPeriod>>
                     ELSE <<>>
         IN  gap \o wrap \o music_y_centers(Tail(separators))

RECURSIVE SeqSum(_)
SeqSum(s) == IF s = <<>> THEN 0 ELSE Head(s) + SeqSum(Tail(s))

\* numpy.arange(numpy.mean(y_centers) + 1, 575, 287).astype(int), for a
\* non-empty y_centers: the values c + 287 k below 575, truncated
music_y_positions(y_centers) ==
    LET n == Len(y_centers)
        s == SeqSum(y_centers)
        ks == {k \in 0..2 : s + n + MusicRowPeriod * k * n < MusicRegionHeight * n}
    IN  [i \in 1..Cardinality(ks) |-> (s \div n) + 1 + MusicRowPeriod * (i - 1)]

\* the rows of y_positions that are not past the bottom of the frame
RECURSIVE music_rows_in_frame(_, _)
music_rows_in_frame(ys, height) ==
    IF ys = <<>> THEN <<>>
    ELSE IF Head(ys) + MusicTileSize > height
         THEN music_rows_in_frame(Tail(ys), height)
         ELSE <<Head(ys)>> \o music_rows_in_frame(Tail(ys), height)

\* music._parse_frame on a region of the given height whose separator
\* transitions are `separators`: the row starts it yields.  With two or
\* more transitions and no matching pair numpy.mean([]) is nan and
\* numpy.arange(nan, ...) raises ValueError.
music_parse_frame(separators, height) ==
    IF Len(separators) < 2 THEN [err |-> FALSE, rows |-> <<>>]
    ELSE LET y_centers == music_y_centers(separators)
         IN  IF y_centers = <<>> THEN [err |-> TRUE, rows |-> <<>>]
             ELSE [err |-> FALSE,
                   rows |-> music_rows_in_frame(music_y_positions(y_centers), height)]

\* x_positions of music._parse_frame
music_x_positions == <<40, 327, 614, 900>>

(* ===================== recipes.py: grid segmenter ====================== *)
\* recipes._parse_frame: one row per pair of consecutive transitions whose
\* distance is a card height; the row starts y1 it yields
RECURSIVE recipes_parse_frame(_)
recipes_parse_frame(separators) ==
    IF Len(separators) < 2 THEN <<>>
    ELSE LET y1 == separators[1]
             y2 == separators[2]
         IN  (IF 180 < y2 - y1 /\ y2 - y1 < 200 THEN <<y1>> ELSE <<>>)
             \o recipes_parse_frame(Tail(separators))

\* x_positions of recipes._parse_frame
recipes_x_positions == <<<<10, 122>>, <<148, 260>>, <<285, 397>>, <<423, 535>>, <<560, 672>>>>

(* ======================= duplicate suppressor ========================== *)
\* a faulty similarity test that also rejects a mean equal to the threshold
MeanDiffAtMost(new_concat, old_concat, threshold) ==
    AbsDiffSum(new_concat, old_concat) <= threshold * NumElems(new_concat)

\* cv2.absdiff(new_concat, old_concat).mean() < threshold
MeanDiffBelow(new_concat, old_concat, threshold) ==
    AbsDiffSum(new_concat, old_concat) < threshold * NumElems(new_concat)

\* the loop over the history windows: TRUE at the first similar window
RECURSIVE AnyWindowSimilar(_, _, _, _)
AnyWindowSimilar(all_tiles, new_concat, windows, threshold) ==
    IF windows = <<>> THEN FALSE
    ELSE LET old_concat == HConcat(PySlice(all_tiles, Head(windows)))
         IN  IF old_concat = <<>>
             THEN AnyWindowSimilar(all_tiles, new_concat, Tail(windows), threshold)
             ELSE IF MeanDiffBelow(new_concat, old_concat, threshold) THEN TRUE
             ELSE AnyWindowSimilar(all_tiles, new_concat, Tail(windows), threshold)

\* the slices of music._is_duplicate_cards
music_windows ==
    << [start |-> -4, stop |-> 0, open |-> TRUE],
       [start |-> -8, stop |-> -4, open |-> FALSE] >>

\* the slices of recipes._is_duplicate_cards
recipes_windows ==
    << [start |-> -5, stop |-> 0, open |-> TRUE],
       [start |-> -10, stop |-> -5, open |-> FALSE],
       [start |-> -15, stop |-> -10, open |-> FALSE] >>

\* a faulty suppressor that wants more history than one row before comparing
music_is_duplicate_needs_more(all_covers, new_covers) ==
    IF all_covers = <<>> \/ Len(all_covers) <= Len(new_covers) THEN FALSE
    ELSE AnyWindowSimilar(all_covers, HConcat(new_covers), music_windows,
                          MusicDupThreshold)

\* music._is_duplicate_cards
music_is_duplicate_cards(all_covers, new_covers) ==
    IF all_covers = <<>> \/ Len(all_covers) < Len(new_covers) THEN FALSE
    ELSE AnyWindowSimilar(all_covers, HConcat(new_covers), music_windows,
                          MusicDupThreshold)

\* recipes._is_duplicate_cards
recipes_is_duplicate_cards(all_cards, new_cards) ==
    IF new_cards = <<>> \/ Len(all_cards) < Len(new_cards) THEN FALSE
    ELSE AnyWindowSimilar(all_cards, HConcat(new_cards), recipes_windows,
                          RecipesDupThreshold)

\* a faulty accumulation that keeps the new row in place of the history
ExtendReplaces(all_tiles, new_tiles) == new_tiles

\* all_covers.extend(new_covers)
Extend(all_tiles, new_tiles) == all_tiles \o new_tiles

\* music._remove_blanks: drop the icons whose sampled color is the background
RECURSIVE remove_blanks(_)
remove_blanks(all_icons) ==
    IF all_icons = <<>> THEN <<>>
    ELSE IF NormSq(MeanColor(Head(all_icons)), BG_COLOR)
              < MusicBlankTolerance * MusicBlankTolerance
         THEN remove_blanks(Tail(all_icons))
         ELSE <<Head(all_icons)>> \o remove_blanks(Tail(all_icons))


(* ============================== state ================================== *)
VARIABLES
    mode,       \* which module's parse_video runs: "music" or "recipes"
    pc,         \* "read": in _read_frames; "rows": in the loop over
                \* _parse_frame; "done": parse_video returned;
                \* "AssertionError", "ValueError": the scan aborted
    frameIdx,   \* frames cap.read() has returned so far
    frame,      \* the frame read last, with what the pipeline did to it
    pending,    \* row starts _parse_frame has still to yield for this frame
    all_tiles,  \* all_covers / all_cards: the accepted-tile history
    deliveries, \* every row the segmenter delivered, with the suppressor's verdict
    result,     \* what parse_video returned
    separators, \* music._parse_frame alone: the transitions found in the region
    parsed,     \* music._parse_frame alone: its outcome
    card,       \* _find_best_match alone: the tile
    recipes,    \* _find_best_match alone: the candidate list
    best,       \* _find_best_match alone: its outcome
    matcher,    \* which module's matcher runs: "music" or "recipes"
    db,         \* song_db / recipe_db: the reference database
    tiles,      \* song_covers / recipe_cards: the retained tiles
    matched,    \* matched_songs / matched_recipes: the set's entries
    matchLog,   \* the database entry each tile matched, in tile order
    matchOut,   \* what match_songs / match_recipes returned
    names,      \* translate_names: the names passed in
    locale,     \* translate_names: the locale
    translations, \* translate_names: the translation table
    translated  \* translate_names: its outcome and the lookups it made

videoVars == <<mode, pc, frameIdx, frame, pending, all_tiles, deliveries, result>>
segVars == <<separators, parsed>>
bestVars == <<card, recipes, best>>
matchVars == <<matcher, db, tiles, matched, matchLog, matchOut>>
transVars == <<names, locale, translations, translated>>
vars == <<videoVars, segVars, bestVars, matchVars, transVars>>

NoFrame == [shape |-> <<0, 0>>, corner |-> <<0, 0, 0>>, detectRun |-> FALSE,
            judged |-> FALSE, segRun |-> FALSE]

VideoIdle ==
    /\ mode = "none" /\ pc = "idle" /\ frameIdx = 0 /\ frame = NoFrame
    /\ pending = <<>> /\ all_tiles = <<>> /\ deliveries = <<>>
    /\ result = [returned |-> FALSE, tiles |-> <<>>]

SegIdle == separators = <<>> /\ parsed = [state |-> "idle"]

BestIdle == card = <<>> /\ recipes = <<>> /\ best = [state |-> "idle"]

MatchIdle ==
    /\ matcher = "none" /\ db = <<>> /\ tiles = <<>> /\ matched = <<>>
    /\ matchLog = <<>> /\ matchOut = [state |-> "idle"]

TransIdle ==
    /\ names = <<>> /\ locale = "" /\ translations = <<>>
    /\ translated = [state |-> "idle"]

(* ======================= inputs of a video scan ======================== *)
\* tiles per row: len(x_positions) of the module's _parse_frame
RowWidth(m) ==
    IF m = "music" THEN Len(music_x_positions) ELSE Len(recipes_x_positions)

DupThreshold(m) == IF m = "music" THEN MusicDupThreshold ELSE RecipesDupThreshold

\* the history windows the module's suppressor compares
Windows(m) == IF m = "music" THEN music_windows ELSE recipes_windows

\* Row contents a frame may show: the first tile gray at some level, the
\* other slots blank (background).  Levels one step apart differ by a mean
\* of exactly the threshold, the last two by less; there are enough
\* pairwise dissimilar rows to fill every window and leave one older.
RowLevels(m) ==
    LET t == DupThreshold(m) * RowWidth(m)
        k == Len(Windows(m))
    IN  {i * t : i \in 0..k} \cup {k * t + 10}

RowImage(m, v) ==
    [i \in 1..RowWidth(m) |-> IF i = 1 THEN Flat(Gray(v)) ELSE Flat(BG_COLOR)]

RowImages(m) == {RowImage(m, v) : v \in RowLevels(m)}

\* frame shapes the video source may supply
FrameShapes == {<<FrameHeight, FrameWidth>>, <<FrameHeight, 960>>}

\* mean colors of the sampled corner: near the background, one inside and
\* one outside the tolerance
CornerColors == {<<243, 222, 106>>, <<244, 223, 107>>}

\* separator transitions of a music region (rows 0..408 of frame[:410])
MusicSeparators ==
    {<<>>, <<5>>, <<5, 100>>, <<20, 282>>, <<100, 362>>, <<3, 26>>}

\* separator transitions of a recipes region (610 rows)
RecipesSeparators ==
    {<<>>, <<50>>, <<10, 100>>, <<10, 200>>, <<10, 200, 390>>,
     <<10, 200, 390, 580>>}


(* ===================== parse_video as a state machine ================== *)
InitVideo ==
    /\ mode \in {"music", "recipes"}
    /\ pc = "read"
    /\ frameIdx = 0
    /\ frame = NoFrame
    /\ pending = <<>>
    /\ all_tiles = <<>>
    /\ deliveries = <<>>
    /\ result = [returned |-> FALSE, tiles |-> <<>>]

\* music._read_frames for one frame cap.read() returned: the assert, then
\* detect, then the yield of the cropped region
music_read_frames(f) ==
    IF ~ResolutionOk(f) THEN "assert"
    ELSE IF ~detect(f) THEN "skip"
    ELSE "yield"

\* recipes._read_frames for one frame: the assert, then the yield
recipes_read_frames(f) ==
    IF ~ResolutionOk(f) THEN "assert" ELSE "yield"

\* the subsampling test of recipes.parse_video on enumerate's index i
recipes_subsampled(i) == i % RecipesSubsample # 0

\* music.parse_video, one iteration of _read_frames' loop with a frame read:
\* the frame is rejected, skipped, or handed to _parse_frame
MusicReadFrame(shape, corner, seps) ==
    LET f == [shape |-> shape, corner |-> corner]
        gate == music_read_frames(f)
        out == music_parse_frame(seps, MusicRegionHeight)
    IN  /\ mode = "music" /\ pc = "read" /\ frameIdx < MaxFrames
        /\ Len(deliveries) + Len(out.rows) <= MaxDeliveries
        /\ frameIdx' = frameIdx + 1
        /\ frame' = [shape |-> shape, corner |-> corner,
                     detectRun |-> gate # "assert",
                     judged |-> gate = "yield",
                     segRun |-> gate = "yield"]
        /\ pc' = IF gate = "assert" THEN "AssertionError"
                 ELSE IF gate = "skip" THEN "read"
                 ELSE IF out.err THEN "ValueError"
                 ELSE IF out.rows = <<>> THEN "read" ELSE "rows"
        /\ pending' = IF gate = "yield" /\ ~out.err THEN out.rows ELSE <<>>
        /\ UNCHANGED <<mode, all_tiles, deliveries, result>>
        /\ UNCHANGED <<segVars, bestVars, matchVars, transVars>>

\* recipes.parse_video, one iteration with a frame read: the frame is
\* rejected, dropped by the subsampling, or handed to _parse_frame
RecipesReadFrame(shape, corner, seps) ==
    LET f == [shape |-> shape, corner |-> corner]
        gate == recipes_read_frames(f)
        skipped == recipes_subsampled(frameIdx)
        rows == recipes_parse_frame(seps)
    IN  /\ mode = "recipes" /\ pc = "read" /\ frameIdx < MaxFrames
        /\ Len(deliveries) + Len(rows) <= MaxDeliveries
        /\ frameIdx' = frameIdx + 1
        /\ frame' = [shape |-> shape, corner |-> corner,
                     detectRun |-> FALSE,
                     judged |-> FALSE,
                     segRun |-> gate = "yield" /\ ~skipped]
        /\ pc' = IF gate = "assert" THEN "AssertionError"
                 ELSE IF skipped \/ rows = <<>> THEN "read" ELSE "rows"
        /\ pending' = IF gate = "yield" /\ ~skipped THEN rows ELSE <<>>
        /\ UNCHANGED <<mode, all_tiles, deliveries, result>>
        /\ UNCHANGED <<segVars, bestVars, matchVars, transVars>>

\* _is_duplicate_cards of the running module
is_duplicate_cards(m, all, new) ==
    IF m = "music" THEN music_is_duplicate_cards(all, new)
    ELSE recipes_is_duplicate_cards(all, new)

\* the body of parse_video's inner loop for the next row _parse_frame
\* yields; `new` is the row of tiles cut at that row start
DeliverRow(new) ==
    LET dup == is_duplicate_cards(mode, all_tiles, new)
    IN  /\ pc = "rows" /\ pending # <<>>
        /\ all_tiles' = IF dup THEN all_tiles ELSE Extend(all_tiles, new)
        /\ deliveries' = Append(deliveries, [row |-> new, dup |-> dup])
        /\ pending' = Tail(pending)
        /\ pc' = IF Tail(pending) = <<>> THEN "read" ELSE "rows"
        /\ UNCHANGED <<mode, frameIdx, frame, result>>
        /\ UNCHANGED <<segVars, bestVars, matchVars, transVars>>

\* cap.read() reports the end of the video: parse_video returns
VideoEnd ==
    /\ pc = "read"
    /\ pc' = "done"
    /\ result' = [returned |-> TRUE,
                  tiles |-> IF mode = "music" THEN remove_blanks(all_tiles)
                            ELSE all_tiles]
    /\ UNCHANGED <<mode, frameIdx, frame, pending, all_tiles, deliveries>>
    /\ UNCHANGED <<segVars, bestVars, matchVars, transVars>>

NextVideo ==
    \/ \E shape \in FrameShapes, corner \in CornerColors, seps \in MusicSeparators :
           MusicReadFrame(shape, corner, seps)
    \/ \E shape \in FrameShapes, corner \in CornerColors, seps \in RecipesSeparators :
           RecipesReadFrame(shape, corner, seps)
    \/ \E new \in RowImages(mode) : DeliverRow(new)
    \/ VideoEnd

Init == InitVideo /\ SegIdle /\ BestIdle /\ MatchIdle /\ TransIdle

Next == NextVideo

Spec == Init /\ [][Next]_vars


(* ===================== properties of parse_video ======================= *)
\* the tiles of the rows accepted among the first n deliveries, in order
RECURSIVE AcceptedTiles(_, _)
AcceptedTiles(log, n) ==
    IF n = 0 THEN <<>>
    ELSE AcceptedTiles(log, n - 1)
         \o (IF log[n].dup THEN <<>> ELSE log[n].row)

\* the rows accepted among the first n deliveries, in order
RECURSIVE AcceptedRows(_, _)
AcceptedRows(log, n) ==
    IF n = 0 THEN <<>>
    ELSE AcceptedRows(log, n - 1)
         \o (IF log[n].dup THEN <<>> ELSE <<log[n].row>>)

\* the summed absolute difference of two rows, tile by tile
RECURSIVE RowDiff(_, _)
RowDiff(r1, r2) ==
    IF r1 = <<>> THEN 0
    ELSE AbsDiffSum(Head(r1), Head(r2)) + RowDiff(Tail(r1), Tail(r2))

\* two rows whose mean absolute pixel difference is strictly below 15
Similar(r1, r2) == RowDiff(r1, r2) < 15 * 3 * TilePixels * Len(r1)

\* how often row r occurs among the rows of a history
Occurrences(rows, r) == Cardinality({i \in 1..Len(rows) : rows[i] = r})

\* C1 (as amended): when a row R is delivered twice in a row, the second
\* delivery is rejected and appends nothing, so the two deliveries leave
\* exactly one occurrence of R's tiles when the first was accepted and none
\* when the first was itself rejected as a duplicate of recent history; rows
\* A, B, C, C with A, B, C pairwise dissimilar leave exactly 3 rows.
C1_SecondDeliveryRejected ==
    LET n == Len(deliveries)
    IN  /\ \A i \in 2..n :
               deliveries[i].row = deliveries[i - 1].row
               => /\ deliveries[i].dup
                  /\ AcceptedTiles(deliveries, i)
                       = AcceptedTiles(deliveries, i - 2)
                         \o (IF deliveries[i - 1].dup THEN <<>>
                             ELSE deliveries[i].row)
        /\ (n >= 2 /\ deliveries[n].row = deliveries[n - 1].row)
               => all_tiles = AcceptedTiles(deliveries, n - 2)
                              \o (IF deliveries[n - 1].dup THEN <<>>
                                  ELSE deliveries[n].row)
        /\ ( /\ n = 4
             /\ deliveries[4].row = deliveries[3].row
             /\ ~Similar(deliveries[1].row, deliveries[2].row)
             /\ ~Similar(deliveries[1].row, deliveries[3].row)
             /\ ~Similar(deliveries[2].row, deliveries[3].row) )
               => Len(all_tiles) = 3 * RowWidth(mode)

\* C1 witness: rows A, B, C, C were delivered and three rows are kept
C1_Witness ==
    /\ Len(deliveries) = 4
    /\ deliveries[4].row = deliveries[3].row
    /\ ~deliveries[1].dup /\ ~deliveries[2].dup /\ ~deliveries[3].dup
    /\ deliveries[4].dup
    /\ Len(all_tiles) = 3 * RowWidth(mode)

\* C1 as stated: after any two consecutive deliveries of the same row R the
\* history holds exactly one occurrence of R's tiles for them (one row was
\* appended by the two deliveries, or R occurs exactly once in the history)
C1_AsStated ==
    LET n == Len(deliveries)
    IN  (n >= 2 /\ deliveries[n].row = deliveries[n - 1].row)
        => \/ Len(all_tiles)
                = Len(AcceptedTiles(deliveries, n - 2)) + RowWidth(mode)
           \/ Occurrences(AcceptedRows(deliveries, n), deliveries[n].row) = 1

\* C2: a frame whose shape is not 720 x 1280 aborts the scan at that frame:
\* detection and segmentation never ran on it, nothing is pending, no result
\* is returned and no further step of the scan (no later read) is possible.
C2_ResolutionInvariant ==
    (frame # NoFrame /\ frame.shape # <<720, 1280>>)
    => /\ pc = "AssertionError"
       /\ ~frame.detectRun /\ ~frame.judged /\ ~frame.segRun
       /\ pending = <<>>
       /\ ~result.returned
       /\ ~ENABLED NextVideo

\* C2 witness: a wrong-sized frame arrived after rows had been accepted, at
\* an index the recipes subsampling would have dropped
C2_Witness ==
    /\ pc = "AssertionError" /\ frame.shape # <<720, 1280>>
    /\ all_tiles # <<>>
    /\ mode = "recipes" /\ (frameIdx - 1) % 4 # 0

\* C7 as stated: in both pipelines a frame is segmented only if detection
\* judged it to show the list, and a correctly sized frame that fails
\* detection is skipped without error, nothing of it reaching the history
C7_FrameGate ==
    /\ frame.segRun => frame.judged
    /\ (frame.detectRun /\ ~frame.judged)
           => pc \in {"read", "done"} /\ pending = <<>> /\ ~frame.segRun

\* C8: each verdict of _is_duplicate_cards is TRUE exactly when the history
\* holds at least a row of tiles and the row is similar (mean absolute
\* difference strictly below 15) to one of the last 2 (music) or 3 (recipes)
\* accepted rows.
C8_SuppressorRule ==
    \A i \in 1..Len(deliveries) :
        LET rows == AcceptedRows(deliveries, i - 1)
            k == IF mode = "music" THEN 2 ELSE 3
            recent == {j \in 1..Len(rows) : j > Len(rows) - k}
        IN  deliveries[i].dup
            <=> /\ Len(AcceptedTiles(deliveries, i - 1)) >= Len(deliveries[i].row)
                /\ \E j \in recent : Similar(deliveries[i].row, rows[j])

\* C8 witness: a row equal to an accepted row older than the checked
\* windows was accepted again, in the recipes pipeline
C8_Witness ==
    /\ mode = "recipes"
    /\ Len(deliveries) = 5
    /\ deliveries[5].row = deliveries[1].row
    /\ \A i \in 1..5 : ~deliveries[i].dup

\* C10: the history is exactly the accepted rows in delivery order (a
\* rejected row changes nothing, an accepted row is appended whole at the
\* end), its length is a multiple of the row width, and every window the
\* suppressor compares is empty or one previously accepted row.
C10_HistoryAppendOnly ==
    LET n == Len(deliveries)
        rows == AcceptedRows(deliveries, n)
    IN  /\ all_tiles = AcceptedTiles(deliveries, n)
        /\ Len(all_tiles) % RowWidth(mode) = 0
        /\ \A w \in 1..Len(Windows(mode)) :
               LET old == PySlice(all_tiles, Windows(mode)[w])
               IN  old = <<>> \/ (Len(rows) >= w /\ old = rows[Len(rows) + 1 - w])

\* C10 witness: a row was rejected after two rows were accepted, and a
\* further row was accepted after it
C10_Witness ==
    /\ Len(deliveries) = 4
    /\ ~deliveries[1].dup /\ ~deliveries[2].dup
    /\ deliveries[3].dup /\ ~deliveries[4].dup


(* =============== music._parse_frame on its own (SpecSegment) =========== *)
\* rows of the region at which a separator transition may be found
TransitionRows == {3, 26, 30, 100, 292, 315, 362, 400}

\* numpy.diff(...).nonzero()[0]: the transition rows in increasing order
RECURSIVE TransitionSeq(_)
TransitionSeq(S) ==
    IF S = {} THEN <<>>
    ELSE LET m == CHOOSE x \in S : \A y \in S : x <= y
         IN  <<m>> \o TransitionSeq(S \ {m})

\* the crop boxes [y:y+260, x:x+260] of the tiles of the row starting at y
music_row_tiles(y) ==
    [i \in 1..Len(music_x_positions) |->
        [top |-> y, bottom |-> y + MusicTileSize,
         left |-> music_x_positions[i],
         right |-> music_x_positions[i] + MusicTileSize]]

InitSegment ==
    /\ separators \in {TransitionSeq(S) : S \in SUBSET TransitionRows}
    /\ parsed = [state |-> "called"]

\* list(_parse_frame(region)) for a music content region of 575 rows
ParseFrame ==
    LET out == music_parse_frame(separators, MusicRegionHeight)
    IN  /\ parsed.state = "called"
        /\ parsed' = [state |-> IF out.err THEN "ValueError" ELSE "exhausted",
                      rows |-> [i \in 1..Len(out.rows) |->
                                    [y |-> out.rows[i],
                                     tiles |-> music_row_tiles(out.rows[i])]]]
        /\ UNCHANGED separators
        /\ UNCHANGED <<videoVars, bestVars, matchVars, transVars>>

SegmentInit == VideoIdle /\ InitSegment /\ BestIdle /\ MatchIdle /\ TransIdle

NextSegment == ParseFrame

SpecSegment == SegmentInit /\ [][NextSegment]_vars

\* C9 as stated: for every set of transitions _parse_frame completes without
\* error; it yields no row with fewer than two transitions or with no pair
\* in the gap (259 < d < 266) or wrap (20 < d < 27) pattern; every row has 4
\* tiles cut at 0 <= y, y + 260 <= 575, and row starts are 287 apart.
C9_SegmenterOutput ==
    LET n == Len(separators)
        d(i) == separators[i + 1] - separators[i]
        matching == {i \in 1..(n - 1) : (259 < d(i) /\ d(i) < 266)
                                          \/ (20 < d(i) /\ d(i) < 27)}
    IN  parsed.state # "called"
        => /\ parsed.state = "exhausted"
           /\ (n < 2 \/ matching = {}) => parsed.rows = <<>>
           /\ \A i \in 1..Len(parsed.rows) :
                  /\ Len(parsed.rows[i].tiles) = 4
                  /\ 0 <= parsed.rows[i].y
                  /\ parsed.rows[i].y + 260 <= 575
                  /\ \A t \in 1..4 : parsed.rows[i].tiles[t].top = parsed.rows[i].y
           /\ \A i \in 1..(Len(parsed.rows) - 1) :
                  parsed.rows[i + 1].y = parsed.rows[i].y + 287


(* ================= recipes._find_best_match (SpecBest) ================= *)
\* numpy.roll(card, y, axis=0): the pixel rows moved down by y, cyclically
Roll(img, y) == [i \in 1..Len(img) |-> img[((i - 1 - y) % Len(img)) + 1]]

\* fast_similarity_metric: cv2.absdiff(card, r.img).mean(), times the
\* number of array elements
fast_similarity_metric(c, r) == AbsDiffSum(c, r.img)

\* the vertical shifts slow_similarity_metric tries
SlowShifts == <<-2, -1, 0, 1>>

RECURSIVE SeqMin(_)
SeqMin(s) ==
    IF Len(s) = 1 THEN s[1] ELSE Min(Head(s), SeqMin(Tail(s)))

\* a faulty slow metric that never shifts the card
slow_metric_unshifted(c, r) == AbsDiffSum(c, r.img)

\* slow_similarity_metric: the lowest summed difference across the shifts
slow_similarity_metric(c, r) ==
    SeqMin([k \in 1..Len(SlowShifts) |-> AbsDiffSum(Roll(c, SlowShifts[k]), r.img)])

\* numpy.argmin: the first index of the smallest value
ArgMin(s) == CHOOSE i \in 1..Len(s) :
                 /\ \A j \in 1..Len(s) : s[i] <= s[j]
                 /\ \A j \in 1..(i - 1) : s[j] > s[i]

\* numpy.partition(similarities, kth=2)[:2]: the two smallest values (in an
\* order numpy does not fix; only their distance is used)
TwoSmallest(s) ==
    LET i1 == ArgMin(s)
        rest == [j \in 1..(Len(s) - 1) |-> IF j < i1 THEN s[j] ELSE s[j + 1]]
    IN  <<s[i1], SeqMin(rest)>>

\* recipes._find_best_match: the index of the entry returned.  numpy.partition
\* with kth=2 raises ValueError on fewer than three similarities.
find_best_match(c, cands) ==
    IF Len(cands) < 3 THEN [err |-> TRUE, index |-> 0, slow |-> FALSE]
    ELSE LET similarities ==
                 [i \in 1..Len(cands) |-> fast_similarity_metric(c, cands[i])]
             sims == TwoSmallest(similarities)
         IN  IF Abs(sims[1] - sims[2]) > RecipesMargin * NumElems(c)
             THEN [err |-> FALSE, index |-> ArgMin(similarities), slow |-> FALSE]
             ELSE [err |-> FALSE,
                   index |-> ArgMin([i \in 1..Len(cands) |->
                                        slow_similarity_metric(c, cands[i])]),
                   slow |-> TRUE]

\* card images: blank, or one gray stripe (faint or strong) on one row
StripeLevels == {8, 100}

Stripe(k, v) == [i \in 1..CardRows |-> IF i = k THEN Gray(v) ELSE Gray(0)]

CardImages ==
    {Stripe(k, v) : k \in 1..CardRows, v \in StripeLevels} \cup {Stripe(0, 0)}

\* canonical names of the reference entries, in database order
ItemNames == <<"apple", "birch", "cedar", "daisy", "elder", "fern">>

\* candidate lists: entry i carries the i-th name and any reference image
CandidateLists ==
    UNION {[1..n -> CardImages] : n \in 0..MaxCands}

InitBest ==
    /\ card \in CardImages
    /\ \E imgs \in CandidateLists :
           recipes = [i \in 1..Len(imgs) |->
                         [item_name |-> ItemNames[i], img |-> imgs[i]]]
    /\ best = [state |-> "called"]

\* one call _find_best_match(card, recipes)
FindBestMatch ==
    LET out == find_best_match(card, recipes)
    IN  /\ best.state = "called"
        /\ best' = IF out.err THEN [state |-> "ValueError"]
                   ELSE [state |-> "returned", entry |-> recipes[out.index],
                         index |-> out.index, slow |-> out.slow]
        /\ UNCHANGED <<card, recipes>>
        /\ UNCHANGED <<videoVars, segVars, matchVars, transVars>>

BestInit == VideoIdle /\ SegIdle /\ InitBest /\ MatchIdle /\ TransIdle

NextBest == FindBestMatch

SpecBest == BestInit /\ [][NextBest]_vars

\* the fast score of candidate i: the summed absolute difference (the mean
\* times the 3 * rows elements of the card)
FastScore(i) ==
    LET a == card
        b == recipes[i].img
    IN  SeqSum([k \in 1..Len(a) |->
                   Abs(a[k][1] - b[k][1]) + Abs(a[k][2] - b[k][2])
                   + Abs(a[k][3] - b[k][3])])

\* the slow score of candidate i: the least summed difference over the
\* card moved by -2, -1, 0 and 1 rows
SlowScore(i) ==
    LET h == Len(card)
        b == recipes[i].img
        at(y) == SeqSum([k \in 1..h |->
                     LET p == card[((k - 1 - y) % h) + 1]
                     IN  Abs(p[1] - b[k][1]) + Abs(p[2] - b[k][2])
                         + Abs(p[3] - b[k][3])])
    IN  CHOOSE m \in {at(-2), at(-1), at(0), at(1)} :
            \A o \in {at(-2), at(-1), at(0), at(1)} : m <= o

\* the two smallest fast scores differ by more than the margin 3: the best
\* candidate leads every other one by more than 3 in the mean
Decisive ==
    \E a \in 1..Len(recipes) :
        \A b \in 1..Len(recipes) \ {a} :
            FastScore(b) - FastScore(a) > 3 * 3 * Len(card)

\* C3: whenever _find_best_match returns, with a fast-score gap above the
\* margin the slow metric was not evaluated and the result has the minimum
\* fast score; otherwise the result has the minimum slow score.
C3_TwoStageDecision ==
    best.state = "returned"
    => /\ best.entry = recipes[best.index]
       /\ IF Decisive
          THEN /\ ~best.slow
               /\ \A j \in 1..Len(recipes) : FastScore(best.index) <= FastScore(j)
          ELSE /\ best.slow
               /\ \A j \in 1..Len(recipes) : SlowScore(best.index) <= SlowScore(j)

\* C3 witness: an ambiguous call whose result is not the fast-score minimum
C3_Witness ==
    /\ best.state = "returned"
    /\ ~Decisive
    /\ \E j \in 1..Len(recipes) : FastScore(j) < FastScore(best.index)


(* ============ match_songs and match_recipes (SpecMatch) ================ *)
\* CARD_TYPES of recipes.py, in dictionary order
CARD_TYPES ==
    << [color |-> <<174, 220, 228>>, type |-> "beige"],
       [color |-> <<229, 213, 189>>, type |-> "blue"],
       [color |-> <<113, 159, 183>>, type |-> "brick"],
       [color |-> <<65, 106, 143>>, type |-> "brown"],
       [color |-> <<110, 108, 108>>, type |-> "dark-gray"],
       [color |-> <<123, 199, 211>>, type |-> "gold"],
       [color |-> <<128, 225, 156>>, type |-> "green"],
       [color |-> <<188, 188, 187>>, type |-> "light-gray"],
       [color |-> <<109, 199, 239>>, type |-> "orange"],
       [color |-> <<185, 181, 238>>, type |-> "pink"],
       [color |-> <<87, 76, 204>>, type |-> "red"],
       [color |-> <<163, 160, 159>>, type |-> "silver"],
       [color |-> <<229, 233, 233>>, type |-> "white"],
       [color |-> <<125, 224, 229>>, type |-> "yellow"] >>

\* recipes._guess_card_type: the type whose color is nearest to the mean
\* color of the card's sampled corner (the first on a tie)
guess_card_type(c) ==
    CARD_TYPES[ArgMin([i \in 1..Len(CARD_TYPES) |->
                          NormSq(CARD_TYPES[i].color, c.bg)])].type

\* the entries of diy_data of one card type, in file order
RECURSIVE RecipesOfType(_, _)
RecipesOfType(diy_data, t) ==
    IF diy_data = <<>> THEN <<>>
    ELSE (IF Head(diy_data).card_type = t THEN <<Head(diy_data)>> ELSE <<>>)
         \o RecipesOfType(Tail(diy_data), t)

\* recipes._get_recipe_db: the entries by card type (a defaultdict: no
\* entries gives []), orange, pink and yellow merged into one list
get_recipe_db(diy_data) ==
    LET merged == RecipesOfType(diy_data, "orange")
                  \o RecipesOfType(diy_data, "pink")
                  \o RecipesOfType(diy_data, "yellow")
    IN  [t \in {CARD_TYPES[i].type : i \in 1..Len(CARD_TYPES)} |->
            IF t \in {"orange", "pink", "yellow"} THEN merged
            ELSE RecipesOfType(diy_data, t)]

\* x.icon_hash - test_hash: the Hamming distance of two hashes
Hamming(h1, h2) == Cardinality({b \in 1..Len(h1) : h1[b] # h2[b]})

\* min(song_db, key=...): the index of the first entry nearest to the hash
nearest_song(song_db, test_hash) ==
    ArgMin([i \in 1..Len(song_db) |-> Hamming(song_db[i].icon_hash, test_hash)])

Range(s) == {s[i] : i \in 1..Len(s)}

\* a faulty accumulation of names in a list
list_append(entries, name) == Append(entries, name)

\* matched_songs.add(name): a set keeps one entry per name
set_add(entries, name) ==
    IF name \in Range(entries) THEN entries ELSE Append(entries, name)

\* the orders in which list(a set) may enumerate n entries
Orders(n) == {p \in [1..n -> 1..n] : \A i, j \in 1..n : p[i] = p[j] => i = j}

\* the hash of the i-th cover of names.json: all covers differ
HashOf(i) == [b \in 1..HashBits |-> ((i - 1) \div (2 ^ (b - 1))) % 2]

SongDbs ==
    {[i \in 1..n |-> [song_name |-> ItemNames[i], icon_hash |-> HashOf(i)]] :
        n \in 0..MaxDb}

SongCovers == UNION {[1..n -> [1..HashBits -> {0, 1}]] : n \in 0..MaxTiles}

\* names.json of the recipes: entry i has the i-th name, a strong stripe on
\* row i of its image, and any of three card types
DiyData ==
    UNION {{[i \in 1..n |-> [item_name |-> ItemNames[i],
                             card_type |-> types[i],
                             img |-> Stripe(((i - 1) % CardRows) + 1, 100)]] :
               types \in [1..n -> {"beige", "orange", "pink"}]} :
           n \in 0..MaxDb}

\* recipe cards: a stripe on the first or second row, on beige or near pink
RecipeCardTiles ==
    {[img |-> Stripe(k, 100), bg |-> c] :
        k \in {1, 2}, c \in {<<174, 220, 228>>, <<186, 180, 236>>}}

RecipeCards == UNION {[1..n -> RecipeCardTiles] : n \in 0..MaxTiles}

InitMatch ==
    /\ matcher \in {"music", "recipes"}
    /\ IF matcher = "music"
       THEN db \in SongDbs /\ tiles \in SongCovers
       ELSE (\E d \in DiyData : db = get_recipe_db(d)) /\ tiles \in RecipeCards
    /\ matched = <<>>
    /\ matchLog = <<>>
    /\ matchOut = [state |-> "running"]

\* match_songs, one iteration of its loop: the next cover is hashed (the
\* tile is given by its hash) and the nearest song's name is added; min()
\* of an empty database raises ValueError
MatchSong ==
    LET test_hash == tiles[Len(matchLog) + 1]
        failed == db = <<>>
        best_match == db[nearest_song(db, test_hash)]
    IN  /\ matcher = "music" /\ matchOut.state = "running"
        /\ Len(matchLog) < Len(tiles)
        /\ matchLog' = Append(matchLog,
               IF failed THEN [ok |-> FALSE, cands |-> db]
               ELSE [ok |-> TRUE, cands |-> db, name |-> best_match.song_name])
        /\ matched' = IF failed THEN matched
                      ELSE set_add(matched, best_match.song_name)
        /\ matchOut' = IF failed THEN [state |-> "ValueError"] ELSE matchOut
        /\ UNCHANGED <<matcher, db, tiles>>
        /\ UNCHANGED <<videoVars, segVars, bestVars, transVars>>

\* match_recipes, one iteration of its loop: the card's type is guessed, the
\* best match is found in that type's list and its name is added; an
\* error of _find_best_match propagates
MatchRecipe ==
    LET c == tiles[Len(matchLog) + 1]
        cands == db[guess_card_type(c)]
        out == find_best_match(c.img, cands)
    IN  /\ matcher = "recipes" /\ matchOut.state = "running"
        /\ Len(matchLog) < Len(tiles)
        /\ matchLog' = Append(matchLog,
               IF out.err THEN [ok |-> FALSE, cands |-> cands]
               ELSE [ok |-> TRUE, cands |-> cands,
                     name |-> cands[out.index].item_name])
        /\ matched' = IF out.err THEN matched
                      ELSE set_add(matched, cands[out.index].item_name)
        /\ matchOut' = IF out.err THEN [state |-> "ValueError"] ELSE matchOut
        /\ UNCHANGED <<matcher, db, tiles>>
        /\ UNCHANGED <<videoVars, segVars, bestVars, transVars>>

\* return list(matched_songs) / list(matched_recipes), in the set's order
MatchReturn(order) ==
    /\ matchOut.state = "running"
    /\ Len(matchLog) = Len(tiles)
    /\ matchOut' = [state |-> "returned",
                    list |-> [i \in 1..Len(matched) |-> matched[order[i]]]]
    /\ UNCHANGED <<matcher, db, tiles, matched, matchLog>>
    /\ UNCHANGED <<videoVars, segVars, bestVars, transVars>>

NextMatch ==
    \/ MatchSong
    \/ MatchRecipe
    \/ \E order \in Orders(Len(matched)) : MatchReturn(order)

MatchInit == VideoIdle /\ SegIdle /\ BestIdle /\ InitMatch /\ TransIdle

SpecMatch == MatchInit /\ [][NextMatch]_vars

\* C4 as stated: for every tile, a candidate list of any size >= 1 gives a
\* match that is an entry of that list, whose name is recorded; an error is
\* propagated only when the candidate list is empty.
C4_NeverInventsOnlyEmptyFails ==
    \A i \in 1..Len(matchLog) :
        LET e == matchLog[i]
            candNames == {IF matcher = "music" THEN e.cands[j].song_name
                          ELSE e.cands[j].item_name : j \in 1..Len(e.cands)}
        IN  /\ Len(e.cands) >= 1
                => e.ok /\ e.name \in candNames /\ e.name \in Range(matched)
            /\ ~e.ok => e.cands = <<>>

\* C5: the list match_songs / match_recipes returns holds each name at most
\* once and holds exactly the names that at least one tile matched.
C5_Deduplication ==
    matchOut.state = "returned"
    => /\ \A i, j \in 1..Len(matchOut.list) :
              matchOut.list[i] = matchOut.list[j] => i = j
       /\ Range(matchOut.list) = {matchLog[i].name : i \in 1..Len(matchLog)}
       /\ Len(matchLog) = Len(tiles)

\* C5 witness: in match_recipes three tiles matched the same entry and the
\* returned list holds that one name once
C5_Witness ==
    /\ matchOut.state = "returned"
    /\ Len(matchLog) = 3
    /\ matchLog[1].name = matchLog[2].name /\ matchLog[2].name = matchLog[3].name
    /\ matchOut.list = <<matchLog[1].name>>
    /\ matcher = "recipes"


(* ==================== translate_names (SpecTranslate) ================== *)
\* the list comprehension [translations[name][locale] for name in names]:
\* a missing name or locale raises KeyError and no list is built
RECURSIVE lookup_names(_, _, _)
lookup_names(ns, loc, table) ==
    IF ns = <<>> THEN [err |-> FALSE, list |-> <<>>, lookups |-> 0]
    ELSE IF Head(ns) \notin DOMAIN table
         THEN [err |-> TRUE, list |-> <<>>, lookups |-> 1]
    ELSE IF loc \notin DOMAIN table[Head(ns)]
         THEN [err |-> TRUE, list |-> <<>>, lookups |-> 1]
    ELSE LET rest == lookup_names(Tail(ns), loc, table)
         IN  [err |-> rest.err,
              list |-> IF rest.err THEN <<>>
                       ELSE <<table[Head(ns)][loc]>> \o rest.list,
              lookups |-> 1 + rest.lookups]

\* a faulty passthrough test that forgets the default locale
PassthroughAutoOnly == {"auto"}

\* the locales translate_names passes through
PassthroughLocales == {"auto", "en-us"}

\* music.translate_names and recipes.translate_names (the same code on
\* their own translations.json)
translate_names(ns, loc, table) ==
    IF loc \in PassthroughLocales
    THEN [state |-> "returned", list |-> ns, opened |-> FALSE, lookups |-> 0]
    ELSE LET out == lookup_names(ns, loc, table)
         IN  IF out.err
             THEN [state |-> "KeyError", opened |-> TRUE, lookups |-> out.lookups]
             ELSE [state |-> "returned", list |-> out.list, opened |-> TRUE,
                   lookups |-> out.lookups]

NamePool == {"apple", "birch", "cedar"}

Locales == {"auto", "en-us", "fr-eu", "ja-jp"}

\* the localized string of a name
Localized(n, l) == <<l, n>>

\* translation tables: any set of names present, "apple" with or without
\* its ja-jp entry
TranslationTables ==
    {[n \in D |-> [l \in (IF n = "apple" THEN L ELSE {"fr-eu", "ja-jp"}) |->
                      Localized(n, l)]] :
        D \in SUBSET NamePool, L \in {{"fr-eu", "ja-jp"}, {"fr-eu"}}}

InitTranslate ==
    /\ names \in UNION {[1..n -> NamePool] : n \in 0..MaxNames}
    /\ locale \in Locales
    /\ translations \in TranslationTables
    /\ translated = [state |-> "called"]

\* one call translate_names(names, locale)
TranslateNames ==
    /\ translated.state = "called"
    /\ translated' = translate_names(names, locale, translations)
    /\ UNCHANGED <<names, locale, translations>>
    /\ UNCHANGED <<videoVars, segVars, bestVars, matchVars>>

TranslateInit == VideoIdle /\ SegIdle /\ BestIdle /\ MatchIdle /\ InitTranslate

NextTranslate == TranslateNames

SpecTranslate == TranslateInit /\ [][NextTranslate]_vars

\* C6: with locale "auto" or "en-us" translate_names returns its input
\* unchanged and looks nothing up; with any other locale it looks up every
\* name and returns the localized strings in the input's order and count,
\* or fails, returning nothing, when a name or its locale entry is absent.
C6_LocalePassthrough ==
    LET present(i) == /\ names[i] \in DOMAIN translations
                      /\ locale \in DOMAIN translations[names[i]]
    IN  translated.state # "called"
        => IF locale = "auto" \/ locale = "en-us"
           THEN /\ translated.state = "returned"
                /\ translated.list = names
                /\ translated.lookups = 0 /\ ~translated.opened
           ELSE IF \A i \in 1..Len(names) : present(i)
           THEN /\ translated.state = "returned"
                /\ Len(translated.list) = Len(names)
                /\ \A i \in 1..Len(names) :
                       translated.list[i] = translations[names[i]][locale]
                /\ translated.lookups = Len(names)
           ELSE /\ translated.state = "KeyError"
                /\ "list" \notin DOMAIN translated

\* C6 witness: a lookup failed on the last of three names after two
\* succeeded, for a locale entry missing under a present name
C6_Witness ==
    /\ translated.state = "KeyError"
    /\ Len(names) = 3
    /\ translated.lookups = 3
    /\ names[3] \in DOMAIN translations

====
